---- MODULE Spec2Model ----
(***************************************************************************)
(* github-raw.py: a pool of worker threads resolves each manifest entry    *)
(* through the git tree API, decides skip-vs-download against the local    *)
(* symlink, and installs the blob into the content-addressed .sha store.   *)
(*                                                                         *)
(* Both manifest entries of REPOS live in the same directory, so the       *)
(* model has one destination directory with one .sha store, one            *)
(* destination per target and one scratch file per worker.                 *)
(***************************************************************************)
EXTENDS Integers, Sequences, FiniteSets, TLC

\* ------------------------------------------------------------------ bounds
MaxWorkers == 2          \* largest --workers value explored
MaxRuns == 2             \* successive executions of the script explored

\* --------------------------------------------------------------- constants
Workers == 1..MaxWorkers
Hashes == {"h1", "h2"}                 \* blob shas
BlobSizes == {1, 2}                    \* byte counts of complete files
PartSizes == {0}                       \* byte count of an interrupted write

\* REPOS without the owner/repo column: tree, tree, ..., blob
REPOS == << <<"master", "bin", "x">>, <<"master", "bin", "y">> >>
Targets == 1..Len(REPOS)

\* the termination sentinel main() puts on the queue, one per worker
None == 0

\* children of a tree listing, as the tree API returns them
Tree(p, s) == [path |-> p, type |-> "tree", sha |-> s, size |-> 0, url |-> "-"]
Blob(p, s, n) == [path |-> p, type |-> "blob", sha |-> s, size |-> n, url |-> "blobs/" \o s]
Commit(p, s) == [path |-> p, type |-> "commit", sha |-> s, size |-> 0, url |-> "-"]

\* The remote repositories explored: tree id -> listing.  A tree id outside
\* the domain answers 404.
RemoteFixtures ==
    { \* plain: both paths are tree, blob
      [t \in {"master", "t1"} |->
         IF t = "master" THEN <<Tree("bin", "t1")>>
         ELSE <<Blob("x", "h1", 1), Blob("y", "h2", 2)>>],
      \* repeated names at both levels; x and y share their content
      [t \in {"master", "t1", "t2"} |->
         IF t = "master" THEN <<Tree("bin", "t1"), Tree("bin", "t2")>>
         ELSE IF t = "t1" THEN <<Blob("y", "h1", 1), Blob("x", "h1", 1), Blob("x", "h2", 2)>>
         ELSE <<Blob("x", "h2", 2)>>],
      \* the non-final segment names a blob
      [t \in {"master"} |-> <<Blob("bin", "h2", 1)>>],
      \* the final segment x names a tree, y names a submodule
      [t \in {"master", "t1", "t2"} |->
         IF t = "master" THEN <<Tree("bin", "t1")>>
         ELSE IF t = "t1" THEN <<Tree("x", "t2"), Commit("y", "h1")>>
         ELSE <<Blob("x", "h1", 1)>>],
      \* x is missing from the listing, y changed its content; t9 is not served
      [t \in {"master", "t1"} |->
         IF t = "master" THEN <<Tree("lib", "t9"), Tree("bin", "t1")>>
         ELSE <<Blob("y", "h1", 2)>>] }

VARIABLES
    remote,      \* the repository the tree API serves (fixed during a behaviour)
    nWorkers,    \* args.workers
    run,         \* which execution of the script this is
    dst,         \* dst[t]: "absent", "file" (regular file) or the hash its symlink names
    store,       \* the .sha directory: set of <<hash, size>>
    dirs,        \* which of the directories "parent", ".sha" exist
    scratch,     \* scratch files in the parent directory: set of <<worker, size>>
    task_queue,  \* queue.Queue contents
    unfinished,  \* queue.Queue.unfinished_tasks
    mainPc,      \* position of main()
    mainI,       \* loop index of main()
    wk,          \* wk[w]: locals and position of worker thread w
    outcome,     \* outcome[t]: what the worker reported for target t in this run
    prevClean,   \* the previous run ended with every target processed and none failed
    interrupted, \* interrupted[t]: where t's install stood when the previous run was killed
    taken,       \* taken[t]: how often q.get() has returned target t in this run
    signalled    \* signalled[t]: how often q.task_done() has been called for t in this run

vars == <<remote, nWorkers, run, dst, store, dirs, scratch, task_queue,
          unfinished, mainPc, mainI, wk, outcome, prevClean, interrupted,
          taken, signalled>>

\* ------------------------------------------------------------- filesystem
Exists(h) == \E b \in store : b[1] = h
SizeOf(h) == (CHOOSE b \in store : b[1] = h)[2]
Without(h) == {b \in store : b[1] # h}

\* Path.is_symlink()
IsSymlink(d) == d \in Hashes

\* Path.is_file(): true of a regular file and of a symlink that resolves to one
IsFile(d) == d = "file" \/ (d \in Hashes /\ Exists(d))

\* the scratch file of worker w, if it is on disk
ScratchOf(w) == {f \in scratch : f[1] = w}

\* ------------------------------------------------------------ worker locals
\* e is the pending exception ("" when none), res what the task reported,
\* fetches the number of github_tree calls made for the task so far
Idle == [pc |-> "get", t |-> None, item |-> <<>>, tree |-> "", tree_child |-> "",
         url |-> "", size |-> 0, sha |-> "", tmp |-> FALSE, origin |-> "",
         e |-> "", res |-> "", fetches |-> 0]

NotStarted == [Idle EXCEPT !.pc = "off"]

Set(w, r) == wk' = [wk EXCEPT ![w] = r]

\* control reaches the except clause of downloading_worker with exception x;
\* only dst_file is read from there on
Raise(r, x) == [Idle EXCEPT !.pc = "except", !.t = r.t, !.e = x]

\* an exception inside do_download's try block: the finally clause runs first
RaiseInTry(r, x) == [r EXCEPT !.pc = "finally", !.e = x]

\* ------------------------------------------------------------------- Init
Stores == {s \in SUBSET (Hashes \X BlobSizes) :
             \A a \in s, b \in s : a[1] = b[1] => a = b}

Init ==
    /\ remote \in RemoteFixtures
    /\ nWorkers \in 1..MaxWorkers
    /\ run = 1
    /\ dst \in [Targets -> {"absent", "file"} \cup Hashes]
    /\ store \in Stores
    /\ dirs \in SUBSET {"parent", ".sha"}
    /\ (store # {} => ".sha" \in dirs)
    /\ (".sha" \in dirs \/ \E t \in Targets : dst[t] # "absent") => "parent" \in dirs
    /\ scratch = {}
    /\ task_queue = <<>>
    /\ unfinished = 0
    /\ mainPc = "put"
    /\ mainI = 1
    /\ wk = [w \in Workers |-> IF w <= nWorkers THEN Idle ELSE NotStarted]
    /\ outcome = [t \in Targets |-> "pending"]
    /\ prevClean = FALSE
    /\ interrupted = [t \in Targets |-> "none"]
    /\ taken = [t \in Targets |-> 0]
    /\ signalled = [t \in Targets |-> 0]

\* ------------------------------------------------------------------ main()
\* for cfg in REPOS: task_queue.put(cfg)
MainPut ==
    /\ mainPc = "put"
    /\ task_queue' = Append(task_queue, mainI)
    /\ unfinished' = unfinished + 1
    /\ IF mainI < Len(REPOS)
         THEN mainI' = mainI + 1 /\ mainPc' = mainPc
         ELSE mainI' = 1 /\ mainPc' = "join"
    /\ UNCHANGED <<remote, nWorkers, run, dst, store, dirs, scratch, wk, outcome,
                   prevClean, interrupted, taken, signalled>>

\* join() returning as soon as a single task is left
OneTaskLeft(n) == n <= 1

\* Queue.join() waits "while self.unfinished_tasks"
AllTasksDone(n) == n = 0

\* task_queue.join(): returns once every put has been matched by a task_done
MainJoin ==
    /\ mainPc = "join"
    /\ AllTasksDone(unfinished)
    /\ mainPc' = "stop"
    /\ UNCHANGED <<remote, nWorkers, run, dst, store, dirs, scratch, task_queue,
                   unfinished, mainI, wk, outcome, prevClean, interrupted,
                   taken, signalled>>

\* for i in range(args.workers): task_queue.put(None)
MainStop ==
    /\ mainPc = "stop"
    /\ task_queue' = Append(task_queue, None)
    /\ unfinished' = unfinished + 1
    /\ IF mainI < nWorkers
         THEN mainI' = mainI + 1 /\ mainPc' = mainPc
         ELSE mainI' = 1 /\ mainPc' = "done"
    /\ UNCHANGED <<remote, nWorkers, run, dst, store, dirs, scratch, wk, outcome,
                   prevClean, interrupted, taken, signalled>>

\* ------------------------------------------------------ downloading_worker
FsUnchanged == UNCHANGED <<dst, store, dirs, scratch>>
QueueUnchanged == UNCHANGED <<task_queue, unfinished, taken, signalled>>
RestUnchanged == UNCHANGED <<remote, nWorkers, run, mainPc, mainI, prevClean,
                             interrupted>>

\* item = q.get(); if item is None: break
Get(w) ==
    /\ wk[w].pc = "get"
    /\ task_queue # <<>>
    /\ task_queue' = Tail(task_queue)
    /\ IF Head(task_queue) = None
         THEN /\ Set(w, [Idle EXCEPT !.pc = "exit"])
              /\ UNCHANGED taken
         ELSE /\ Set(w, [Idle EXCEPT !.pc = "mkdir_parent", !.t = Head(task_queue),
                                     !.item = REPOS[Head(task_queue)]])
              /\ taken' = [taken EXCEPT ![Head(task_queue)] = @ + 1]
    /\ UNCHANGED <<unfinished, outcome, signalled>>
    /\ FsUnchanged /\ RestUnchanged

\* item.pop(0) twice, then inside the try: tree = item.pop(0);
\* tree_child = item.pop(0).  item holds the manifest row after owner/repo.
Pop(r) ==
    IF Len(r.item) < 2
      THEN Raise(r, "IndexError")
      ELSE [r EXCEPT !.pc = "fetch", !.tree = r.item[1], !.tree_child = r.item[2],
                     !.item = Tail(Tail(r.item))]

\* dst_file.parent.mkdir(parents=True, exist_ok=True), outside the try block.
\* With exist_ok an existing directory never raises; a directory that has to
\* be created may (OSError), and that ends the thread.
MkdirParent(w) ==
    /\ wk[w].pc = "mkdir_parent"
    /\ \/ /\ dirs' = dirs \cup {"parent"}
          /\ Set(w, Pop(wk[w]))
       \/ /\ "parent" \notin dirs
          /\ Set(w, [Idle EXCEPT !.pc = "dead", !.t = wk[w].t])
          /\ UNCHANGED dirs
    /\ UNCHANGED <<dst, store, scratch, outcome>>
    /\ QueueUnchanged /\ RestUnchanged

\* a scan without the break: the last child of that name wins
LastMatch(listing, name) ==
    IF \E i \in 1..Len(listing) : listing[i].path = name
      THEN CHOOSE i \in 1..Len(listing) :
             /\ listing[i].path = name
             /\ \A j \in (i + 1)..Len(listing) : listing[j].path # name
      ELSE 0

\* for child in tree_json["tree"]: if tree_child == child["path"]: ... break
\* the index of the first child named name, 0 when the loop runs to its else
FirstMatch(listing, name) ==
    IF \E i \in 1..Len(listing) : listing[i].path = name
      THEN CHOOSE i \in 1..Len(listing) :
             /\ listing[i].path = name
             /\ \A j \in 1..(i - 1) : listing[j].path # name
      ELSE 0

\* the body of one iteration of "while not child_is_leaf" after the fetch
\* a loop that finds the subtree and goes round again without moving down
StayOnLevel(r, c) == r

\* tree = child["sha"]; tree_child = item.pop(0)
Descend(r, c) ==
    IF r.item = <<>>
      THEN Raise(r, "IndexError")
      ELSE [r EXCEPT !.tree = c.sha, !.tree_child = Head(r.item),
                     !.item = Tail(r.item)]

Scan(r, listing) ==
    LET i == FirstMatch(listing, r.tree_child) IN
    IF i = 0 THEN Raise(r, "Exception")
    ELSE IF listing[i].type = "tree"
      THEN Descend(r, listing[i])
    ELSE IF listing[i].type = "blob"
      THEN [r EXCEPT !.pc = "check", !.url = listing[i].url,
                     !.size = listing[i].size, !.sha = listing[i].sha]
    ELSE Raise(r, "Exception")

\* github_tree(...); r.raise_for_status(); one listing per loop iteration
Fetch(w) ==
    /\ wk[w].pc = "fetch"
    /\ \/ Set(w, Raise(wk[w], "HTTPError"))
       \/ /\ wk[w].tree \in DOMAIN remote
          /\ Set(w, Scan([wk[w] EXCEPT !.fetches = @ + 1], remote[wk[w].tree]))
    /\ UNCHANGED outcome
    /\ FsUnchanged /\ QueueUnchanged /\ RestUnchanged

\* not dst_file.is_symlink() or dst_file.stat().st_size != size or
\* Path(os.readlink(dst_file)).name != sha
\* stat() follows the symlink and raises when the blob is missing
\* a test that takes a destination that is no symlink for up to date
SkipWhenNoSymlink(d, size, sha) ==
    IF ~IsSymlink(d) THEN "skip"
    ELSE IF ~Exists(d) THEN "raise"
    ELSE IF SizeOf(d) # size THEN "download"
    ELSE IF d # sha THEN "download"
    ELSE "skip"

SkipDecision(d, size, sha) ==
    IF ~IsSymlink(d) THEN "download"
    ELSE IF ~Exists(d) THEN "raise"
    ELSE IF SizeOf(d) # size THEN "download"
    ELSE IF d # sha THEN "download"
    ELSE "skip"

Check(w) ==
    /\ wk[w].pc = "check"
    /\ LET r == wk[w]
           v == SkipDecision(dst[r.t], r.size, r.sha) IN
       /\ Set(w, IF v = "download" THEN [r EXCEPT !.pc = "request"]
                 ELSE IF v = "raise" THEN Raise(r, "FileNotFoundError")
                 ELSE [r EXCEPT !.pc = "task_done", !.res = "skip"])
       /\ outcome' = IF v = "skip" THEN [outcome EXCEPT ![r.t] = "skip"] ELSE outcome
    /\ FsUnchanged /\ QueueUnchanged /\ RestUnchanged

\* ------------------------------------------------------------- do_download
\* with github_blob(remote_url, stream=True) as r: r.raise_for_status()
Request(w) ==
    /\ wk[w].pc = "request"
    /\ \/ Set(w, [wk[w] EXCEPT !.pc = "write"])
       \/ Set(w, Raise(wk[w], "HTTPError"))
    /\ UNCHANGED outcome
    /\ FsUnchanged /\ QueueUnchanged /\ RestUnchanged

\* with tempfile.NamedTemporaryFile(...) as f: tmp_dst_file = Path(f.name);
\* for chunk in r.iter_content(...): f.write(chunk)
\* The server decides how many bytes arrive.
Write(w) ==
    /\ wk[w].pc = "write"
    /\ \/ \* the scratch file cannot be created: tmp_dst_file stays None
          /\ Set(w, RaiseInTry(wk[w], "OSError"))
          /\ UNCHANGED scratch
       \/ \* the stream or the write breaks off
          \E n \in PartSizes :
            /\ scratch' = scratch \cup {<<w, n>>}
            /\ Set(w, RaiseInTry([wk[w] EXCEPT !.tmp = TRUE], "ChunkedEncodingError"))
       \/ \E n \in BlobSizes :
            /\ scratch' = scratch \cup {<<w, n>>}
            /\ Set(w, [wk[w] EXCEPT !.pc = "verify", !.tmp = TRUE])
    /\ UNCHANGED <<dst, store, dirs, outcome>>
    /\ QueueUnchanged /\ RestUnchanged

\* if remote_size != -1 and downloaded_size != remote_size: raise
SizeMismatch(remote_size, downloaded_size) ==
    remote_size # -1 /\ downloaded_size # remote_size

\* downloaded_size = tmp_dst_file.stat().st_size, and the comparison
Verify(w) ==
    /\ wk[w].pc = "verify"
    /\ \E f \in ScratchOf(w) :
         Set(w, IF SizeMismatch(wk[w].size, f[2])
                  THEN RaiseInTry(wk[w], "size mismatch")
                  ELSE [wk[w] EXCEPT !.pc = "chmod"])
    /\ UNCHANGED outcome
    /\ FsUnchanged /\ QueueUnchanged /\ RestUnchanged

\* tmp_dst_file.chmod(0o644)
Chmod(w) ==
    /\ wk[w].pc = "chmod"
    /\ \/ Set(w, [wk[w] EXCEPT !.pc = "mkdir"])
       \/ Set(w, RaiseInTry(wk[w], "OSError"))
    /\ UNCHANGED outcome
    /\ FsUnchanged /\ QueueUnchanged /\ RestUnchanged

\* target.parent.mkdir(parents=True, exist_ok=True)
MkdirSha(w) ==
    /\ wk[w].pc = "mkdir"
    /\ \/ /\ dirs' = dirs \cup {".sha"}
          /\ Set(w, [wk[w] EXCEPT !.pc = "replace"])
       \/ /\ ".sha" \notin dirs
          /\ Set(w, RaiseInTry(wk[w], "OSError"))
          /\ UNCHANGED dirs
    /\ UNCHANGED <<dst, store, scratch, outcome>>
    /\ QueueUnchanged /\ RestUnchanged

\* tmp_dst_file.replace(target): rename over whatever blob has that name
Replace(w) ==
    /\ wk[w].pc = "replace"
    /\ \/ \E f \in ScratchOf(w) :
            /\ ".sha" \in dirs
            /\ store' = Without(wk[w].sha) \cup {<<wk[w].sha, f[2]>>}
            /\ scratch' = scratch \ {f}
            /\ Set(w, [wk[w] EXCEPT !.pc = "unlink_dst"])
       \/ /\ Set(w, RaiseInTry(wk[w], "OSError"))
          /\ UNCHANGED <<store, scratch>>
    /\ UNCHANGED <<dst, dirs, outcome>>
    /\ QueueUnchanged /\ RestUnchanged

\* if dst_file.is_symlink(): origin = dst_file.parent / os.readlink(dst_file);
\* dst_file.unlink()
UnlinkDst(w) ==
    /\ wk[w].pc = "unlink_dst"
    /\ LET r == wk[w] IN
       IF IsSymlink(dst[r.t])
         THEN \/ /\ dst' = [dst EXCEPT ![r.t] = "absent"]
                 /\ Set(w, [r EXCEPT !.pc = "unlink_origin", !.origin = dst[r.t]])
              \/ /\ Set(w, RaiseInTry([r EXCEPT !.origin = dst[r.t]], "OSError"))
                 /\ UNCHANGED dst
         ELSE /\ Set(w, [r EXCEPT !.pc = "symlink"])
              /\ UNCHANGED dst
    /\ UNCHANGED <<store, dirs, scratch, outcome>>
    /\ QueueUnchanged /\ RestUnchanged

\* target.unlink() in place of origin.unlink()
TargetBlob(r) == r.sha

\* the blob origin.unlink() removes: whatever the old symlink named
OriginBlob(r) == r.origin

\* origin.unlink()
UnlinkOrigin(w) ==
    /\ wk[w].pc = "unlink_origin"
    /\ LET r == wk[w] IN
       IF Exists(OriginBlob(r))
         THEN \/ /\ store' = Without(OriginBlob(r))
                 /\ Set(w, [r EXCEPT !.pc = "symlink"])
              \/ /\ Set(w, RaiseInTry(r, "OSError"))
                 /\ UNCHANGED store
         ELSE /\ Set(w, RaiseInTry(r, "FileNotFoundError"))
              /\ UNCHANGED store
    /\ UNCHANGED <<dst, dirs, scratch, outcome>>
    /\ QueueUnchanged /\ RestUnchanged

\* dst_file.symlink_to(Path(".sha") / sha)
SymlinkTo(w) ==
    /\ wk[w].pc = "symlink"
    /\ LET r == wk[w] IN
       IF dst[r.t] = "absent"
         THEN \/ /\ dst' = [dst EXCEPT ![r.t] = r.sha]
                 /\ Set(w, [r EXCEPT !.pc = "finally"])
              \/ /\ Set(w, RaiseInTry(r, "OSError"))
                 /\ UNCHANGED dst
         ELSE /\ Set(w, RaiseInTry(r, "FileExistsError"))
              /\ UNCHANGED dst
    /\ UNCHANGED <<store, dirs, scratch, outcome>>
    /\ QueueUnchanged /\ RestUnchanged

\* finally: if not tmp_dst_file is None: if tmp_dst_file.is_file():
\* tmp_dst_file.unlink().  Then the pending exception, if any, propagates;
\* otherwise do_download returns.
Leave(r) ==
    IF r.e # "" THEN Raise(r, r.e)
    ELSE [r EXCEPT !.pc = "task_done", !.res = "downloaded"]

\* a finally clause that looks for the scratch file only when none was made
ScratchForgotten(r, w) == ~r.tmp /\ ScratchOf(w) # {}

\* if not tmp_dst_file is None: if tmp_dst_file.is_file():
ScratchLeft(r, w) == r.tmp /\ ScratchOf(w) # {}

\* tmp_dst_file.unlink() in the finally clause.  When the unlink itself
\* raises, that exception replaces the pending one and the file stays in the
\* directory under its random name (owner 0: no later call looks for it).
Finally(w) ==
    /\ wk[w].pc = "finally"
    /\ LET r == wk[w] IN
       /\ IF ScratchLeft(r, w)
            THEN \/ /\ scratch' = scratch \ ScratchOf(w)
                    /\ Set(w, Leave(r))
                 \/ /\ Set(w, Raise(r, "OSError in finally"))
                    /\ scratch' = (scratch \ ScratchOf(w)) \cup
                                     {<<0, f[2]>> : f \in ScratchOf(w)}
            ELSE /\ Set(w, Leave(r))
                 /\ UNCHANGED scratch
       /\ outcome' = IF wk'[w].res = "downloaded"
                       THEN [outcome EXCEPT ![r.t] = "downloaded"] ELSE outcome
    /\ UNCHANGED <<dst, store, dirs>>
    /\ QueueUnchanged /\ RestUnchanged

\* ---------------------------------------------- downloading_worker, the end
\* except Exception as e: print(e); print("Failed to download", dst_file);
\* if dst_file.is_file(): dst_file.unlink()
\* An OSError from unlink() is raised inside the handler and ends the thread.
Except(w) ==
    /\ wk[w].pc = "except"
    /\ LET r == wk[w] IN
       /\ outcome' = [outcome EXCEPT ![r.t] = "failed"]
       /\ IF IsFile(dst[r.t])
            THEN \/ /\ dst' = [dst EXCEPT ![r.t] = "absent"]
                    /\ Set(w, [r EXCEPT !.pc = "task_done", !.res = "failed"])
                 \/ /\ Set(w, [Idle EXCEPT !.pc = "dead", !.t = r.t])
                    /\ UNCHANGED dst
            ELSE /\ Set(w, [r EXCEPT !.pc = "task_done", !.res = "failed"])
                 /\ UNCHANGED dst
    /\ UNCHANGED <<store, dirs, scratch>>
    /\ QueueUnchanged /\ RestUnchanged

\* q.task_done()
TaskDone(w) ==
    /\ wk[w].pc = "task_done"
    /\ unfinished' = unfinished - 1
    /\ signalled' = [signalled EXCEPT ![wk[w].t] = @ + 1]
    /\ Set(w, Idle)
    /\ UNCHANGED <<task_queue, outcome, taken>>
    /\ FsUnchanged /\ RestUnchanged

\* ------------------------------------------------------------ the next run
\* The process ends when main() has returned and every thread has left its
\* loop; the script is then started again on the same directory.
Exited == mainPc = "done" /\ \A w \in Workers : wk[w].pc \in {"exit", "off"}

\* the state of a process that has just been started: main() before its
\* first put, the threads created by create_workers before their first get
Restart ==
    /\ outcome' = [t \in Targets |-> "pending"]
    /\ taken' = [t \in Targets |-> 0]
    /\ signalled' = [t \in Targets |-> 0]
    /\ task_queue' = <<>>
    /\ unfinished' = 0
    /\ mainPc' = "put"
    /\ mainI' = 1
    /\ wk' = [w \in Workers |-> IF w <= nWorkers THEN Idle ELSE NotStarted]

NextRun ==
    /\ Exited
    /\ run < MaxRuns
    /\ run' = run + 1
    /\ prevClean' = \A t \in Targets : outcome[t] \in {"skip", "downloaded"}
    /\ interrupted' = [t \in Targets |-> "none"]
    /\ Restart
    /\ UNCHANGED <<remote, nWorkers, dst, store, dirs, scratch>>

\* ------------------------------------------------------- an interrupted run
\* Where the install of target t stands in do_download at this moment:
\* "stored" after tmp_dst_file.replace(target) and before dst_file is looked
\* at, "unlinked" after dst_file.unlink() and before dst_file.symlink_to.
Standing(t) ==
    IF \E w \in Workers : wk[w].t = t /\ wk[w].pc = "unlink_dst"
      THEN "stored"
    ELSE IF \E w \in Workers : /\ wk[w].t = t
                               /\ wk[w].pc \in {"unlink_origin", "symlink"}
                               /\ wk[w].origin \in Hashes
      THEN "unlinked"
    ELSE "none"

\* The process is killed between two statements: no except or finally clause
\* runs, the threads and the queue are gone, the directory stays as it is
\* (scratch files included, now owned by nobody), and the script is started
\* again.
Crash ==
    /\ ~Exited
    /\ run < MaxRuns
    /\ run' = run + 1
    /\ prevClean' = FALSE
    /\ interrupted' = [t \in Targets |-> Standing(t)]
    /\ scratch' = {<<0, f[2]>> : f \in scratch}
    /\ Restart
    /\ UNCHANGED <<remote, nWorkers, dst, store, dirs>>

downloading_worker(w) ==
    \/ Get(w) \/ MkdirParent(w) \/ Fetch(w) \/ Check(w)
    \/ Request(w) \/ Write(w) \/ Verify(w) \/ Chmod(w) \/ MkdirSha(w)
    \/ Replace(w) \/ UnlinkDst(w) \/ UnlinkOrigin(w) \/ SymlinkTo(w)
    \/ Finally(w) \/ Except(w) \/ TaskDone(w)

Next ==
    \/ MainPut \/ MainJoin \/ MainStop
    \/ \E w \in Workers : downloading_worker(w)
    \/ NextRun

Spec == Init /\ [][Next]_vars

\* --workers defaults to 1: the tasks of a run are handled one after another
InitOneWorker == Init /\ nWorkers = 1

SpecOneWorker == InitOneWorker /\ [][Next]_vars

\* one worker, and a run may be killed at any point and started again
NextOrCrash == Next \/ Crash

SpecCrash == InitOneWorker /\ [][NextOrCrash]_vars

\* ------------------------------------------------------------ the contract
\* The target worker w is handling and the row it resolves
TargetOf(w) == wk[w].t

\* The worker holds a resolved leaf descriptor: it is deciding, downloading
\* or has finished without an error
Resolved(r) ==
    \/ r.pc \in {"check", "request", "write", "verify", "chmod", "mkdir", "replace",
                 "unlink_dst", "unlink_origin", "symlink", "finally"}
    \/ r.pc = "task_done" /\ r.res \in {"skip", "downloaded"}

\* do_download has returned to the worker without raising
Returned(r) == r.pc = "task_done" /\ r.res = "downloaded"

\* What section 4.1 asks of resolve(): walk the rows of the first child of
\* each name; the last segment must be a blob, every other a tree.
Leaf(c) == [ok |-> TRUE, why |-> "", url |-> c.url, size |-> c.size, sha |-> c.sha]
NoLeaf(x) == [ok |-> FALSE, why |-> x, url |-> "", size |-> 0, sha |-> ""]

RECURSIVE Reached(_, _, _)
Reached(rem, tree, segs) ==
    IF tree \notin DOMAIN rem THEN NoLeaf("fetch")
    ELSE LET named == SelectSeq(rem[tree], LAMBDA c : c.path = Head(segs)) IN
         IF named = <<>> THEN NoLeaf("missing")
         ELSE IF Len(segs) = 1
           THEN IF Head(named).type = "blob" THEN Leaf(Head(named)) ELSE NoLeaf("type")
         ELSE IF Head(named).type = "tree"
           THEN Reached(rem, Head(named).sha, Tail(segs))
         ELSE NoLeaf("type")

Expected(t) == Reached(remote, Head(REPOS[t]), Tail(REPOS[t]))

\* C1: whenever do_download returns without raising (for a descriptor the
\* resolver was right to produce), the destination is a symlink to
\* .sha/<content_hash> and that blob exists.
C1_InstallPostcondition ==
    \A w \in Workers :
      (Returned(wk[w]) /\ Expected(TargetOf(w)).ok) =>
        dst[TargetOf(w)] = wk[w].sha /\ Exists(wk[w].sha)

\* C2: when a task ends in the error handler, a destination that is a symlink
\* to an existing blob stays that symlink; the handler removes regular files only.
C2_FailureKeepsOldState ==
    [][\A w \in Workers :
         (wk[w].pc = "except" /\ wk'[w].pc # "except"
            /\ IsSymlink(dst[TargetOf(w)]) /\ Exists(dst[TargetOf(w)]))
         => dst'[TargetOf(w)] = dst[TargetOf(w)]]_vars

\* C3: once the size check has rejected a download, the task changes neither
\* the store nor the destination.
C3_SizeMismatchChangesNothing ==
    [][\A w \in Workers :
         (wk[w].e = "size mismatch" /\ Expected(TargetOf(w)).ok)
         => store' = store /\ dst'[TargetOf(w)] = dst[TargetOf(w)]]_vars

\* C4: the worker skips exactly when the destination is a symlink, the file it
\* resolves to has the descriptor's size and the link names the descriptor's
\* hash; in every other case it starts the download.
C4_SkipIff ==
    [][\A w \in Workers :
         (wk[w].pc = "check" /\ wk'[w].pc # "check" /\ Expected(TargetOf(w)).ok)
         => LET d == dst[TargetOf(w)] IN
            IF IsSymlink(d) /\ Exists(d) /\ <<d, wk[w].size>> \in store /\ d = wk[w].sha
              THEN wk'[w].pc = "task_done" /\ wk'[w].res = "skip"
              ELSE wk'[w].pc = "request"]_vars

\* C5: in a run that follows a run without failures, every target that the
\* tree API answers for takes the skip path: nothing is downloaded and no
\* task fails for a reason other than the transport.
C5_SecondRunSkipsAll ==
    (run > 1 /\ prevClean /\ \A t \in Targets : Expected(t).ok) =>
      /\ \A t \in Targets : outcome[t] # "downloaded"
      /\ \A w \in Workers :
           /\ wk[w].pc # "request"
           /\ wk[w].pc = "except" => wk[w].e = "HTTPError"

\* C6: on a well-typed path the resolver holds exactly the url, size and sha
\* of the blob reached through the first child of each name; when a segment
\* is missing from the tree scanned, no descriptor is produced.
C6_ResolutionCorrect ==
    \A w \in Workers :
      Resolved(wk[w]) =>
        LET x == Expected(TargetOf(w)) IN
        /\ x.why # "missing"
        /\ x.ok => /\ wk[w].url = x.url
                   /\ wk[w].size = x.size
                   /\ wk[w].sha = x.sha

\* a download starts for x in the repository whose listings repeat names:
\* the descriptor is that of the first x of the first bin
C6_Witness ==
    \E w \in Workers :
      /\ wk[w].pc = "request"
      /\ TargetOf(w) = 1
      /\ Len(remote["master"]) = 2
      /\ Expected(1).ok
      /\ wk[w].sha = "h1"
      /\ wk[w].size = 1

\* C7: no worker holds a descriptor, and so none downloads or installs, when a
\* matched child's type disagrees with its position on the path.
C7_TypeMismatchFails ==
    \A w \in Workers :
      Resolved(wk[w]) => Expected(TargetOf(w)).why # "type"

C9_FailureDoesNotStrandOthers ==
    \A t \in Targets :
      outcome[t] = "failed" =>
        \A i \in 1..Len(task_queue) :
          task_queue[i] # None =>
            \E w \in Workers : wk[w].pc \notin {"dead", "off", "exit"}

\* C10: the run never comes to rest before main() has returned and every
\* worker thread has left its loop.
C10_RunsToCompletion == Exited \/ ENABLED Next

\* C11: when a run is killed after the scratch file was renamed to
\* .sha/<new hash> and before the destination was touched, the following run
\* brings the destination to the new blob without downloading the blob again
\* (no new request for its bytes is made), and it does not leave the
\* destination a dangling symlink or a regular file.
C11_ResumeWithoutDownload ==
    \A w \in Workers :
        (/\ TargetOf(w) \in Targets
         /\ interrupted[TargetOf(w)] = "stored"
         /\ Expected(TargetOf(w)).ok) =>
            /\ wk[w].pc # "request"
            /\ wk[w].pc = "task_done" =>
                  (dst[TargetOf(w)] # "file" /\
                   (IsSymlink(dst[TargetOf(w)]) => Exists(dst[TargetOf(w)])))

\* C12: an install deletes a stored blob only if no destination refers to it
\* once the install is over: when do_download has returned after deleting
\* the old blob, neither the destination it installed nor the destination of
\* another target in the directory is a symlink to the deleted blob.
C12_DeletedBlobUnreferenced ==
    \A w \in Workers :
        (/\ Returned(wk[w])
         /\ Expected(TargetOf(w)).ok
         /\ wk[w].origin \in Hashes
         /\ ~Exists(wk[w].origin)) =>
            \A t \in Targets : dst[t] # wk[w].origin

\* C13: two targets with distinct destinations in the same directory whose
\* resolution gives the same content hash, installed at the same time by two
\* workers: whatever the destinations pointed to before, no install fails
\* because a blob it expected has disappeared, and once both installs have
\* returned both destinations are symlinks to an existing blob of that hash.
SameHash ==
    /\ \A t \in Targets : Expected(t).ok
    /\ \A t, u \in Targets : Expected(t).sha = Expected(u).sha

C13_ConcurrentSameHash ==
    (nWorkers = 2 /\ SameHash) =>
        /\ \A w \in Workers :
              wk[w].pc = "finally" => wk[w].e # "FileNotFoundError"
        /\ (\A w \in Workers : Returned(wk[w])) =>
              \A t \in Targets : dst[t] = Expected(t).sha /\ Exists(dst[t])

\* C14: removing the old blob is best effort: when origin.unlink() has not
\* removed anything (it failed, for instance because the blob was already
\* gone), the install goes on to create the new symlink instead of failing.
C14_CleanupBestEffort ==
    [][\A w \in Workers :
         (/\ wk[w].pc = "unlink_origin"
          /\ wk'[w].pc # "unlink_origin"
          /\ TargetOf(w) \in Targets
          /\ wk'[w].t = wk[w].t
          /\ Expected(TargetOf(w)).ok
          /\ store' = store) =>
             wk'[w].pc = "symlink"]_vars

\* C15: a destination that is a symlink to a missing blob does not meet the
\* skip conditions: the worker that examines it goes on to download.
C15_DanglingIsDownloaded ==
    [][\A w \in Workers :
         (/\ wk[w].pc = "check"
          /\ wk'[w].pc # "check"
          /\ wk'[w].t = wk[w].t
          /\ Expected(TargetOf(w)).ok
          /\ IsSymlink(dst[TargetOf(w)])
          /\ ~Exists(dst[TargetOf(w)])) =>
             wk'[w].pc = "request"]_vars

\* C16: when the destination is a regular file and resolution, download and
\* size check have succeeded, the step that creates the symlink leaves the
\* destination a symlink to the new blob and raises nothing.
C16_RegularFileReplaced ==
    [][\A w \in Workers :
         (/\ wk[w].pc = "symlink"
          /\ wk'[w].pc # "symlink"
          /\ wk'[w].t = wk[w].t
          /\ Expected(TargetOf(w)).ok
          /\ dst[TargetOf(w)] = "file") =>
             (dst'[TargetOf(w)] = wk[w].sha /\ wk'[w].e = "")]_vars

InDoDownload(r) ==
    r.pc \in {"request", "write", "verify", "chmod", "mkdir", "replace",
              "unlink_dst", "unlink_origin", "symlink", "finally"}

C18_ScratchRemoved ==
    [][\A w \in Workers :
         (/\ InDoDownload(wk[w])
          /\ ~InDoDownload(wk'[w])
          /\ wk'[w].t = wk[w].t
          /\ wk'[w].e # "OSError in finally") =>
             scratch' = scratch \ ScratchOf(w)]_vars

\* do_download has raised after its scratch file was written, and the
\* directory holds no scratch file
C18_Witness ==
    \E w \in Workers :
        /\ wk[w].pc = "except"
        /\ wk[w].e \in {"size mismatch", "ChunkedEncodingError"}
        /\ scratch = {}

\* C19: whatever the number of workers and the interleaving, no target is
\* returned by q.get() twice or held by two workers, task_done() is called
\* for a target only after it was taken and never twice, a target that no
\* worker holds any more has been signalled exactly once, and a termination
\* sentinel is queued or received only when every target has been taken
\* once and signalled once.
SentinelOut ==
    \/ \E i \in 1..Len(task_queue) : task_queue[i] = None
    \/ \E w \in Workers : wk[w].pc = "exit"

C20_ResolverTerminates ==
    \A w \in Workers :
        TargetOf(w) \in Targets =>
            /\ wk[w].pc = "fetch" =>
                  wk[w].fetches = Len(REPOS[TargetOf(w)]) - 2 - Len(wk[w].item)
            /\ wk[w].fetches <= Len(REPOS[TargetOf(w)]) - 1

\* a resolution that went through every level and found its leaf
C20_Witness ==
    \E w \in Workers :
        /\ wk[w].pc = "check"
        /\ TargetOf(w) \in Targets
        /\ wk[w].fetches = Len(REPOS[TargetOf(w)]) - 1
        /\ Expected(TargetOf(w)).ok

====
